---- MODULE Spec2Model ----
(***************************************************************************)
(* Tabor Systems Telegram bot (src/app.py): the webhook relay, its three   *)
(* handlers (start, handle_callback, handle_message) and the retried       *)
(* completion call generate_response_with_retry.                           *)
(*                                                                         *)
(* Each in-flight webhook request is a task.  A task receives one update,  *)
(* runs the handler registered for its kind step by step (a step ends at   *)
(* an await of an outbound Telegram call, at the completion call, or at a  *)
(* time.sleep), and then returns the HTTP response.  The per-user session  *)
(* (context.user_data) and the module-level model are shared by the tasks. *)
(*                                                                         *)
(* Texts are modelled by their ASCII gloss; an exception is a class name   *)
(* plus the list of words of str(e).                                       *)
(***************************************************************************)
EXTENDS Integers, Sequences, FiniteSets, TLC

\* ------------------------------------------------------------------ bounds
MaxUpdates == 3

\* The requests the server handles at the same time, and the users.
Tasks == {"t1", "t2"}
Users == {"u1", "u2"}

\* --------------------------------------------------------------- constants
LANG_AMHARIC == "AM"
LANG_ENGLISH == "EN"
ACTION_ABOUT == "ABOUT_CH"
MAX_RETRIES == 3

\* Python's None, for an absent message text and an unconfigured model.
None == "<None>"
\* context.user_data has no 'lang' key.
Unset == "<unset>"
\* A local that has not been assigned (response_text before the call returns).
NoRet == "<unassigned>"

\* The fixed strings generate_response_with_retry returns.
CONFIG_ERROR_MSG == "ERROR: Gemini API key is missing or invalid. Please check the server configuration."
QUOTA_MSG == "Sorry, the bot's daily usage limit has been met."
INVALID_KEY_MSG == "Sorry, the API Key used is not valid. Please check the provider's Environment Variables."
TECHNICAL_MSG == "Sorry, failed to respond due to a technical issue."
UNKNOWN_MSG == "Sorry, an unknown connection error occurred."
ALL_FAILED_MSG == "Sorry, every answer attempt failed."

Fallbacks ==
    {CONFIG_ERROR_MSG, QUOTA_MSG, INVALID_KEY_MSG, TECHNICAL_MSG, UNKNOWN_MSG, ALL_FAILED_MSG}

\* The fixed texts of the handlers.
MENU_TEXT == "Please select your preferred language."
WELCOME_AM == "Selam {user_name}, welcome to Tabor Systems Ai (Amharic)"
WELCOME_EN == "Hello {user_name}, welcome to Tabor Systems AI."
ABOUT_BTN_AM == "About channel (Amharic)"
ABOUT_BTN_EN == "About Channel"
ABOUT_TEXT_AM == "Tabor Systems channel focuses on ... (Amharic)"
ABOUT_TEXT_EN == "Tabor Systems Channel focuses on ..."
DEFAULT_NAME == "Getaye"

\* ------------------------------------------------- the completion client
\* What one call model.generate_content(prompt) can do: return a response
\* whose .text is a string (possibly empty), or raise.  str(e) is the list
\* of words of the exception's message.
KEY_PHRASE == <<"API", "key", "not", "valid">>

Response(t) == [kind |-> "response", text |-> t, cls |-> "-", msg |-> <<>>]
Raises(c, m) == [kind |-> "raise", text |-> "", cls |-> c, msg |-> m]

Texts == {"hi", "selam"}

Outcomes ==
    {Response(t) : t \in Texts \cup {""}}
    \cup {Raises("ResourceExhaustedError", <<"429", "quota", "exceeded">>),
          Raises("APIError", <<"400", "API", "key", "not", "valid">>),
          Raises("APIError", <<"500", "internal", "error">>),
          Raises("ValueError", <<"no", "candidates">>)}

\* The exception classes: errors.ResourceExhaustedError is taken to derive
\* from errors.APIError (the hierarchy in which the order of the except
\* clauses matters); everything derives from Exception.
Parent(c) ==
    CASE c = "ResourceExhaustedError" -> "APIError"
      [] c = "APIError" -> "Exception"
      [] c = "ValueError" -> "Exception"
      [] OTHER -> "BaseException"

RECURSIVE IsInstance(_, _)
IsInstance(c, target) ==
    IF c = target THEN TRUE
    ELSE IF c = "BaseException" THEN FALSE
    ELSE IsInstance(Parent(c), target)

\* needle in hay: Python's substring test, on word lists.
Contains(hay, needle) ==
    \E i \in 1..(Len(hay) - Len(needle) + 1) :
        SubSeq(hay, i, i + Len(needle) - 1) = needle

RECURSIVE Pow2(_)
Pow2(n) == IF n = 0 THEN 1 ELSE 2 * Pow2(n - 1)

\* ------------------------------------- generate_response_with_retry, pure
\* What one iteration of the loop does: return a value, sleep and go on to
\* the next iteration, or let the exception propagate to the caller.
Return(v) == [act |-> "return", val |-> v, dur |-> 0]
Sleep(d) == [act |-> "sleep", val |-> NoRet, dur |-> d]
Propagate == [act |-> "raise", val |-> NoRet, dur |-> 0]

\* Mutant: the check of the model is dropped.
ModelMissing_Never(m) == FALSE

\* if not model
ModelMissing(m) == m = None

\* if not response.text
IsEmptyText(t) == t = "" \/ t = None

\* Mutant: 2 * attempt written for 2 ** attempt.
BackoffDelay_Product(attempt) == 2 * attempt

\* Mutant: a constant delay instead of an exponential one.
BackoffDelay_Constant(attempt) == 1

\* The delay of time.sleep(2 ** attempt).
BackoffDelay(attempt) == Pow2(attempt)

\* The try body, lines 69-73: the exception it ends with, or the text.
TryBody(o) ==
    IF o.kind = "raise" THEN [exc |-> TRUE, cls |-> o.cls, msg |-> o.msg, text |-> ""]
    ELSE IF IsEmptyText(o.text)
         THEN [exc |-> TRUE, cls |-> "Exception",
               msg |-> <<"Empty", "response", "received">>, text |-> ""]
         ELSE [exc |-> FALSE, cls |-> "-", msg |-> <<>>, text |-> o.text]

\* Mutant: the quota failure is retried like any other failure.
QuotaClause_Retried(attempt) ==
    IF attempt < MAX_RETRIES - 1 THEN Sleep(BackoffDelay(attempt))
    ELSE Return(QUOTA_MSG)

\* except ResourceExhaustedError:
QuotaClause(attempt) == Return(QUOTA_MSG)

\* Mutant: the text of the API error is not inspected.
ApiClause_NoKeyCheck(msg, attempt) ==
    IF attempt < MAX_RETRIES - 1 THEN Sleep(BackoffDelay(attempt))
    ELSE Return(TECHNICAL_MSG)

\* Mutant: the clause sleeps after the last attempt too, instead of returning.
ApiClause_AlwaysSleeps(msg, attempt) ==
    IF Contains(msg, KEY_PHRASE) THEN Return(INVALID_KEY_MSG)
    ELSE Sleep(BackoffDelay(attempt))

\* except APIError as e:
ApiClause(msg, attempt) ==
    IF Contains(msg, KEY_PHRASE) THEN Return(INVALID_KEY_MSG)
    ELSE IF attempt < MAX_RETRIES - 1 THEN Sleep(BackoffDelay(attempt))
    ELSE Return(TECHNICAL_MSG)

\* Mutant: the catch-all clause gives up on the first failure.
OtherClause_NoRetry(attempt) == Return(UNKNOWN_MSG)

\* Mutant: the clause sleeps after the last attempt too, instead of returning.
OtherClause_AlwaysSleeps(attempt) == Sleep(BackoffDelay(attempt))

\* Mutant: the catch-all clause returns the fallback of the APIError clause.
OtherClause_TechnicalFallback(attempt) ==
    IF attempt < MAX_RETRIES - 1 THEN Sleep(BackoffDelay(attempt))
    ELSE Return(TECHNICAL_MSG)

\* except Exception as e:
OtherClause(attempt) ==
    IF attempt < MAX_RETRIES - 1 THEN Sleep(BackoffDelay(attempt))
    ELSE Return(UNKNOWN_MSG)

\* Mutant: the catch-all clause is missing.
ExceptClauses_NoCatchAll == <<"ResourceExhaustedError", "APIError">>

\* The except clauses in the order they are written.
ExceptClauses == <<"ResourceExhaustedError", "APIError", "Exception">>

\* The first clause that matches the raised class, 0 when none does.
FirstMatch(c) ==
    LET hits == {i \in 1..Len(ExceptClauses) : IsInstance(c, ExceptClauses[i])}
    IN IF hits = {} THEN 0 ELSE CHOOSE i \in hits : \A j \in hits : i <= j

\* One iteration of the for loop, lines 68-94.
Attempt(o, attempt) ==
    LET b == TryBody(o) IN
    IF ~b.exc THEN Return(b.text)
    ELSE LET k == FirstMatch(b.cls) IN
         IF k = 0 THEN Propagate
         ELSE CASE ExceptClauses[k] = "ResourceExhaustedError" -> QuotaClause(attempt)
                [] ExceptClauses[k] = "APIError" -> ApiClause(b.msg, attempt)
                [] OTHER -> OtherClause(attempt)

\* ---------------------------------------------------- the handlers, pure
\* Module start-up, lines 45-54: the model exists only when the key is set
\* and genai.configure / GenerativeModel did not raise.
ConfigureModel(keySet, configureOk) ==
    IF keySet THEN (IF configureOk THEN "GenerativeModel" ELSE None) ELSE None

\* query.from_user.first_name of each user of the model.
FirstName(u) == IF u = "u1" THEN "Abel" ELSE ""

\* user_name = first_name if first_name else the default
UserName(firstName) == IF firstName # "" THEN firstName ELSE DEFAULT_NAME

\* data in [LANG_AMHARIC, LANG_ENGLISH]
IsLanguage(data) == data \in {LANG_AMHARIC, LANG_ENGLISH}

\* Mutant: the stored language is not consulted.
SessionLang_AlwaysDefault(stored) == LANG_AMHARIC

\* context.user_data.get('lang', LANG_AMHARIC)
SessionLang(stored) == IF stored = Unset THEN LANG_AMHARIC ELSE stored

WelcomeText(data) == IF data = LANG_AMHARIC THEN WELCOME_AM ELSE WELCOME_EN
AboutButton(data) == IF data = LANG_AMHARIC THEN ABOUT_BTN_AM ELSE ABOUT_BTN_EN
AboutText(lang) == IF lang = LANG_AMHARIC THEN ABOUT_TEXT_AM ELSE ABOUT_TEXT_EN

\* An outbound call to the messaging platform: the method, the text, the
\* value formatted into the text, and the inline keyboard as a list of
\* <<label, callback_data>> buttons.
Outbound(op, text, arg, markup) ==
    [op |-> op, text |-> text, arg |-> arg, markup |-> markup]

LanguageMenu ==
    Outbound("reply_text", MENU_TEXT, "",
             << <<"Amharic", LANG_AMHARIC>>, <<"English", LANG_ENGLISH>> >>)

\* Mutant: the about branch stores the default (setdefault instead of get).
CallbackSession_AboutStoresDefault(stored, data) ==
    IF data \in {LANG_AMHARIC, LANG_ENGLISH} THEN data
    ELSE IF data = ACTION_ABOUT /\ stored = Unset THEN LANG_AMHARIC
    ELSE stored

\* Mutant: a selection is stored only when none is stored yet.
CallbackSession_KeepFirst(stored, data) ==
    IF data \in {LANG_AMHARIC, LANG_ENGLISH} /\ stored = Unset THEN data ELSE stored

\* handle_callback after query.answer(): the session it leaves behind ...
CallbackSession(stored, data) == IF IsLanguage(data) THEN data ELSE stored

\* Mutant: a plain else instead of elif data == ACTION_ABOUT.
CallbackReplies_ElseAbout(stored, data, firstName) ==
    IF data \in {LANG_AMHARIC, LANG_ENGLISH}
    THEN << Outbound("edit_message_text", WelcomeText(data), UserName(firstName),
                     << <<AboutButton(data), ACTION_ABOUT>> >>) >>
    ELSE << Outbound("send_message", AboutText(SessionLang(stored)), "", <<>>) >>

\* ... and the outbound calls it makes, lines 118-146.
CallbackReplies(stored, data, firstName) ==
    IF IsLanguage(data)
    THEN << Outbound("edit_message_text", WelcomeText(data), UserName(firstName),
                     << <<AboutButton(data), ACTION_ABOUT>> >>) >>
    ELSE IF data = ACTION_ABOUT
         THEN << Outbound("send_message", AboutText(SessionLang(stored)), "", <<>>) >>
         ELSE <<>>

\* Mutant: only an absent text is ignored, an empty one is not.
MessageIgnored_OnlyNone(text) == text = None

\* handle_message, line 149: if not update.message.text: return
MessageIgnored(text) == IsEmptyText(text)

\* ----------------------------------------------------------------- state
VARIABLES
    model,      \* the module-level Gemini model, or None
    user_data,  \* per user: context.user_data['lang'], Unset when absent
    lastSel,    \* history: per user, the data of the latest language selection
    nupdates,   \* number of updates received so far
    pc,         \* per task: where the handling of its update stands
    upd,        \* per task: the update being handled
    attempt,    \* per task: the loop variable of generate_response_with_retry
    calls,      \* history, per task: calls of model.generate_content so far
    sleeps,     \* history, per task: the durations passed to time.sleep
    hist,       \* history, per task: what each generate_content call did
    ret,        \* per task: response_text, what the gateway returned
    out,        \* per task: the outbound calls made while handling the update
    resp        \* per task: the HTTP response to its latest POST

vars == <<model, user_data, lastSel, nupdates, pc, upd, attempt, calls, sleeps,
          hist, ret, out, resp>>

shared == <<model, user_data, lastSel>>
gateway == <<attempt, calls, sleeps, hist, ret>>

NoUpdate == [kind |-> "-", user |-> "-", data |-> "-"]

\* The HTTP responses: none yet, line 180's jsonify({"status": "ok"}), 200,
\* and the error response the framework sends when webhook() raises.
NoResp == "-"
HTTP_OK == "200 {status: ok}"
HTTP_ERROR == "error response"

CallbackCodes == {LANG_AMHARIC, LANG_ENGLISH, ACTION_ABOUT, "XX"}
MessageTexts == {None, "", "hello"}

Updates ==
    {[kind |-> "command", user |-> u, data |-> "/start"] : u \in Users}
    \cup {[kind |-> "callback", user |-> u, data |-> d] : u \in Users, d \in CallbackCodes}
    \cup {[kind |-> "message", user |-> u, data |-> x] : u \in Users, x \in MessageTexts}

\* A request body that is no JSON of an update.
Malformed == [kind |-> "malformed", user |-> "-", data |-> "-"]
Bodies == Updates \cup {Malformed}

\* Line 178: request.get_json(force=True) / Update.de_json raise on such a
\* body; webhook() has no try around them.
ParseFails(b) == b.kind = "malformed"

\* Mutant: one event loop runs every handler, so a time.sleep in one of
\* them stalls all the others.
Runnable_SharedLoop(t) == \A t2 \in Tasks \ {t} : pc[t2] # "gen_sleep"

\* app.run, line 199, serves each request in a thread of its own, and the
\* async view runs in an event loop of that thread: a request can take its
\* next step whatever the other requests are doing.
Runnable(t) == TRUE

\* register_handlers: the handler of each kind of update.
Dispatch(u) ==
    CASE u.kind = "command" -> "start"
      [] u.kind = "callback" -> "handle_callback"
      [] OTHER -> "handle_message"

Init ==
    /\ \E keySet \in BOOLEAN, configureOk \in BOOLEAN :
           model = ConfigureModel(keySet, configureOk)
    /\ user_data = [u \in Users |-> Unset]
    /\ lastSel = [u \in Users |-> Unset]
    /\ nupdates = 0
    /\ pc = [t \in Tasks |-> "idle"]
    /\ upd = [t \in Tasks |-> NoUpdate]
    /\ attempt = [t \in Tasks |-> 0]
    /\ calls = [t \in Tasks |-> 0]
    /\ sleeps = [t \in Tasks |-> <<>>]
    /\ hist = [t \in Tasks |-> <<>>]
    /\ ret = [t \in Tasks |-> NoRet]
    /\ out = [t \in Tasks |-> <<>>]
    /\ resp = [t \in Tasks |-> NoResp]

\* webhook, lines 177-179: a POST arrives; its body is parsed and the
\* update dispatched, or parsing raises and the request ends in an error.
Webhook(t) ==
    /\ Runnable(t)
    /\ pc[t] = "idle"
    /\ nupdates < MaxUpdates
    /\ \E b \in Bodies :
           IF ParseFails(b)
           THEN /\ resp' = [resp EXCEPT ![t] = HTTP_ERROR]
                /\ UNCHANGED <<upd, pc>>
           ELSE /\ upd' = [upd EXCEPT ![t] = b]
                /\ pc' = [pc EXCEPT ![t] = Dispatch(b)]
                /\ resp' = [resp EXCEPT ![t] = NoResp]
    /\ nupdates' = nupdates + 1
    /\ UNCHANGED <<shared, gateway, out>>

\* Mutant: /start also forgets the language of the user.
Start_ResetsSession(t) ==
    /\ Runnable(t)
    /\ pc[t] = "start"
    /\ out' = [out EXCEPT ![t] = Append(@, LanguageMenu)]
    /\ pc' = [pc EXCEPT ![t] = "handled"]
    /\ user_data' = [user_data EXCEPT ![upd[t].user] = Unset]
    /\ UNCHANGED <<model, lastSel, nupdates, upd, gateway, resp>>

\* start, lines 98-109.
Start(t) ==
    /\ Runnable(t)
    /\ pc[t] = "start"
    /\ out' = [out EXCEPT ![t] = Append(@, LanguageMenu)]
    /\ pc' = [pc EXCEPT ![t] = "handled"]
    /\ UNCHANGED <<shared, nupdates, upd, gateway, resp>>

\* handle_callback, lines 112-113: await query.answer().
CallbackAnswer(t) ==
    /\ Runnable(t)
    /\ pc[t] = "handle_callback"
    /\ out' = [out EXCEPT ![t] = Append(@, Outbound("answer", "", "", <<>>))]
    /\ pc' = [pc EXCEPT ![t] = "cb_body"]
    /\ UNCHANGED <<shared, nupdates, upd, gateway, resp>>

\* Mutant: the language is kept in one place for all users (bot_data in the
\* place of user_data).
CallbackBody_GlobalLang(t) ==
    LET u == upd[t].user
        data == upd[t].data
    IN /\ Runnable(t)
       /\ pc[t] = "cb_body"
       /\ user_data' = [v \in Users |-> CallbackSession(user_data[v], data)]
       /\ lastSel' = IF data \in {LANG_AMHARIC, LANG_ENGLISH}
                     THEN [lastSel EXCEPT ![u] = data] ELSE lastSel
       /\ out' = [out EXCEPT ![t] = @ \o CallbackReplies(user_data[u], data, FirstName(u))]
       /\ pc' = [pc EXCEPT ![t] = "handled"]
       /\ UNCHANGED <<model, nupdates, upd, gateway, resp>>

\* handle_callback, lines 115-146.
CallbackBody(t) ==
    LET u == upd[t].user
        data == upd[t].data
    IN /\ Runnable(t)
       /\ pc[t] = "cb_body"
       /\ user_data' = [user_data EXCEPT ![u] = CallbackSession(@, data)]
       /\ lastSel' = IF data \in {LANG_AMHARIC, LANG_ENGLISH}
                     THEN [lastSel EXCEPT ![u] = data] ELSE lastSel
       /\ out' = [out EXCEPT ![t] = @ \o CallbackReplies(user_data[u], data, FirstName(u))]
       /\ pc' = [pc EXCEPT ![t] = "handled"]
       /\ UNCHANGED <<model, nupdates, upd, gateway, resp>>

\* handle_message, lines 149-152.
HandleMessage(t) ==
    /\ Runnable(t)
    /\ pc[t] = "handle_message"
    /\ IF MessageIgnored(upd[t].data)
       THEN /\ pc' = [pc EXCEPT ![t] = "handled"]
            /\ out' = out
       ELSE /\ out' = [out EXCEPT ![t] = Append(@, Outbound("send_chat_action", "typing", "", <<>>))]
            /\ pc' = [pc EXCEPT ![t] = "generate"]
    /\ UNCHANGED <<shared, nupdates, upd, gateway, resp>>

\* generate_response_with_retry, lines 64-67.
GenEnter(t) ==
    /\ Runnable(t)
    /\ pc[t] = "generate"
    /\ IF ModelMissing(model)
       THEN /\ ret' = [ret EXCEPT ![t] = CONFIG_ERROR_MSG]
            /\ pc' = [pc EXCEPT ![t] = "gen_done"]
       ELSE /\ ret' = ret
            /\ pc' = [pc EXCEPT ![t] = "gen_try"]
    /\ attempt' = [attempt EXCEPT ![t] = 0]
    /\ UNCHANGED <<shared, nupdates, upd, calls, sleeps, hist, out, resp>>

\* generate_response_with_retry, lines 67-95: one iteration of the loop up
\* to its return or its time.sleep, or the return after the loop.
GenAttempt(t) ==
    /\ Runnable(t)
    /\ pc[t] = "gen_try"
    /\ IF attempt[t] >= MAX_RETRIES
       THEN /\ ret' = [ret EXCEPT ![t] = ALL_FAILED_MSG]
            /\ pc' = [pc EXCEPT ![t] = "gen_done"]
            /\ UNCHANGED <<calls, sleeps, hist>>
       ELSE \E o \in Outcomes :
              LET r == Attempt(o, attempt[t]) IN
              /\ calls' = [calls EXCEPT ![t] = @ + 1]
              /\ hist' = [hist EXCEPT ![t] = Append(@, o)]
              /\ ret' = [ret EXCEPT ![t] = r.val]
              /\ sleeps' = IF r.act = "sleep"
                           THEN [sleeps EXCEPT ![t] = Append(@, r.dur)] ELSE sleeps
              /\ pc' = [pc EXCEPT ![t] =
                          CASE r.act = "return" -> "gen_done"
                            [] r.act = "sleep" -> "gen_sleep"
                            [] OTHER -> "raised"]
    /\ UNCHANGED <<shared, nupdates, upd, attempt, out, resp>>

\* time.sleep returns and the loop goes on to the next attempt.
GenWake(t) ==
    /\ Runnable(t)
    /\ pc[t] = "gen_sleep"
    /\ attempt' = [attempt EXCEPT ![t] = @ + 1]
    /\ pc' = [pc EXCEPT ![t] = "gen_try"]
    /\ UNCHANGED <<shared, nupdates, upd, calls, sleeps, hist, ret, out, resp>>

\* Mutant: the reply consults the session; an identity that has selected no
\* language is sent the language menu text instead of the gateway's result.
Reply_ConsultsSession(t) ==
    /\ Runnable(t)
    /\ pc[t] = "gen_done"
    /\ out' = [out EXCEPT ![t] =
                  Append(@, Outbound("reply_text",
                                     IF user_data[upd[t].user] = Unset
                                     THEN MENU_TEXT ELSE ret[t],
                                     "", <<>>))]
    /\ pc' = [pc EXCEPT ![t] = "handled"]
    /\ UNCHANGED <<shared, nupdates, upd, gateway, resp>>

\* handle_message, line 156: reply with what the gateway returned.
Reply(t) ==
    /\ Runnable(t)
    /\ pc[t] = "gen_done"
    /\ out' = [out EXCEPT ![t] = Append(@, Outbound("reply_text", ret[t], "", <<>>))]
    /\ pc' = [pc EXCEPT ![t] = "handled"]
    /\ UNCHANGED <<shared, nupdates, upd, gateway, resp>>

\* webhook, line 180: the handling is over (the dispatcher swallows an
\* exception a handler raised) and the response is returned; the locals of
\* the request are gone.
WebhookReturn(t) ==
    /\ Runnable(t)
    /\ pc[t] \in {"handled", "raised"}
    /\ pc' = [pc EXCEPT ![t] = "idle"]
    /\ upd' = [upd EXCEPT ![t] = NoUpdate]
    /\ attempt' = [attempt EXCEPT ![t] = 0]
    /\ calls' = [calls EXCEPT ![t] = 0]
    /\ sleeps' = [sleeps EXCEPT ![t] = <<>>]
    /\ hist' = [hist EXCEPT ![t] = <<>>]
    /\ ret' = [ret EXCEPT ![t] = NoRet]
    /\ out' = [out EXCEPT ![t] = <<>>]
    /\ resp' = [resp EXCEPT ![t] = HTTP_OK]
    /\ UNCHANGED <<shared, nupdates>>

\* The next step of request t.
Step(t) ==
    \/ Webhook(t)
    \/ Start(t)
    \/ CallbackAnswer(t)
    \/ CallbackBody(t)
    \/ HandleMessage(t)
    \/ GenEnter(t)
    \/ GenAttempt(t)
    \/ GenWake(t)
    \/ Reply(t)
    \/ WebhookReturn(t)

Next == \E t \in Tasks : Step(t)

Spec == Init /\ [][Next]_vars

\* One request at a time, and the request that is being handled keeps
\* running: the thread serving it is scheduled again and again.
NextOne == Step("t1")
FairOne == Init /\ [][NextOne]_vars /\ WF_vars(NextOne)

\* ------------------------------------------------- vocabulary of the claims
Last(q) == q[Len(q)]

\* The failure classes of one attempt, read off the client's outcome.
IsQuota(o) == o.kind = "raise" /\ o.cls = "ResourceExhaustedError"
IsInvalidKey(o) ==
    o.kind = "raise" /\ o.cls = "APIError" /\ Contains(o.msg, KEY_PHRASE)
IsGeneralApi(o) ==
    o.kind = "raise" /\ o.cls = "APIError" /\ ~Contains(o.msg, KEY_PHRASE)
IsEmptyResponse(o) == o.kind = "response" /\ o.text = ""
IsOtherException(o) == o.kind = "raise" /\ o.cls = "ValueError"
IsText(o) == o.kind = "response" /\ o.text # ""
IsRetryable(o) == IsGeneralApi(o) \/ IsEmptyResponse(o) \/ IsOtherException(o)

\* The gateway call of task t has returned to handle_message.
Returned(t) == pc[t] = "gen_done" \/ (pc[t] = "handled" /\ ret[t] # NoRet)

StrictlyIncreasing(q) == \A i \in 1..(Len(q) - 1) : q[i] < q[i + 1]

IsAboutRequest(t) == upd[t].kind = "callback" /\ upd[t].data = ACTION_ABOUT
IsUnknownCallback(t) ==
    upd[t].kind = "callback"
    /\ upd[t].data \notin {LANG_AMHARIC, LANG_ENGLISH, ACTION_ABOUT}
IsEmptyMessage(t) == upd[t].kind = "message" /\ upd[t].data \in {None, ""}

\* ------------------------------------------------------------------ claims

\* C1: generate_response_with_retry never raises to its caller and, when it
\* has returned, its result is a non-empty string: a text the client
\* generated or one of the fixed fallbacks, whatever the attempts did and
\* whether or not the model is configured.
C1_NeverRaisesNonEmpty ==
    \A t \in Tasks :
        /\ pc[t] # "raised"
        /\ Returned(t) =>
              /\ ret[t] # ""
              /\ ret[t] # NoRet
              /\ ret[t] \in Texts \cup Fallbacks
              /\ ret[t] \in Texts => (hist[t] # <<>> /\ Last(hist[t]) = Response(ret[t]))

\* C1 witness: a call that went through three attempts, the last one ending
\* with an exception that is neither a quota nor an API error, has returned.
C1_Witness ==
    \E t \in Tasks :
        /\ pc[t] = "gen_done"
        /\ Len(hist[t]) = MAX_RETRIES
        /\ IsEmptyResponse(hist[t][1])
        /\ IsOtherException(Last(hist[t]))
        /\ ret[t] = UNKNOWN_MSG

\* The client returned empty text on every attempt of task t's call.
AllEmpty(t) ==
    /\ hist[t] # <<>>
    /\ \A i \in 1..Len(hist[t]) : IsEmptyResponse(hist[t][i])

\* C2 as stated: with empty text on every attempt the call makes exactly
\* MAX_RETRIES calls and returns the technical-issue fallback.
C2_AsStated ==
    \A t \in Tasks :
        (Returned(t) /\ AllEmpty(t)) =>
            (calls[t] = MAX_RETRIES /\ ret[t] = TECHNICAL_MSG)

\* C2 amended: with empty text on every attempt the call makes exactly
\* MAX_RETRIES calls and returns the unknown-error fallback (the fallback of
\* the except Exception clause, which the raised "Empty response" lands in).
C2_EmptyExhaustsToUnknown ==
    \A t \in Tasks :
        /\ (Returned(t) /\ AllEmpty(t)) =>
              (calls[t] = MAX_RETRIES /\ ret[t] = UNKNOWN_MSG)
        /\ (AllEmpty(t) /\ ~Returned(t)) => pc[t] \in {"gen_try", "gen_sleep"}

C2_Witness ==
    \E t \in Tasks :
        pc[t] = "gen_done" /\ AllEmpty(t) /\ Len(hist[t]) = MAX_RETRIES

QuotaLast(t) == hist[t] # <<>> /\ IsQuota(Last(hist[t]))

\* C3: an attempt that fails with quota-exceeded ends the call at once with
\* the daily-limit fallback: no sleep follows it, and from then on no further
\* call of the client and no further sleep happens in this call; when the
\* first attempt is the one, exactly one call was made.
C3_QuotaNeverRetried ==
    /\ [](\A t \in Tasks :
            QuotaLast(t) =>
                /\ Returned(t)
                /\ ret[t] = QUOTA_MSG
                /\ calls[t] = Len(hist[t])
                /\ Len(sleeps[t]) = Len(hist[t]) - 1
                /\ Len(hist[t]) = 1 => (calls[t] = 1 /\ sleeps[t] = <<>>))
    /\ [][\A t \in Tasks :
            (QuotaLast(t) /\ hist'[t] # <<>>) =>
                (calls'[t] = calls[t] /\ sleeps'[t] = sleeps[t] /\ hist'[t] = hist[t])]_vars

\* C3 witness: quota-exceeded on the third attempt, after two retried ones,
\* and the reply has been sent.
C3_Witness ==
    \E t \in Tasks :
        /\ pc[t] = "handled"
        /\ Len(hist[t]) = MAX_RETRIES
        /\ QuotaLast(t)
        /\ ret[t] = QUOTA_MSG

KeyLast(t) == hist[t] # <<>> /\ IsInvalidKey(Last(hist[t]))

\* C4: an attempt that fails with an API error whose text says the API key
\* is not valid ends the call at once with the invalid-key fallback: no sleep
\* follows it, no further call and no further sleep happen in this call, and
\* when the first attempt is the one, exactly one call was made.
C4_InvalidKeyNeverRetried ==
    /\ [](\A t \in Tasks :
            KeyLast(t) =>
                /\ Returned(t)
                /\ ret[t] = INVALID_KEY_MSG
                /\ calls[t] = Len(hist[t])
                /\ Len(sleeps[t]) = Len(hist[t]) - 1
                /\ Len(hist[t]) = 1 => (calls[t] = 1 /\ sleeps[t] = <<>>))
    /\ [][\A t \in Tasks :
            (KeyLast(t) /\ hist'[t] # <<>>) =>
                (calls'[t] = calls[t] /\ sleeps'[t] = sleeps[t] /\ hist'[t] = hist[t])]_vars

\* C4 witness: the invalid key is reported on the first attempt and the
\* reply has been sent.
C4_Witness ==
    \E t \in Tasks :
        /\ pc[t] = "handled"
        /\ Len(hist[t]) = 1
        /\ KeyLast(t)
        /\ ret[t] = INVALID_KEY_MSG
        /\ calls[t] = 1

\* The first k attempts failed retryably and attempt k+1 returned text.
TextAfterFailures(t) ==
    /\ hist[t] # <<>>
    /\ IsText(Last(hist[t]))
    /\ \A i \in 1..(Len(hist[t]) - 1) : IsRetryable(hist[t][i])

\* C5: after k < MAX_RETRIES retryable failures followed by non-empty text t
\* the call returns exactly t, after exactly k+1 calls and exactly k sleeps
\* of strictly increasing duration.
C5_SuccessAfterRetries ==
    \A t \in Tasks :
        TextAfterFailures(t) =>
            /\ Returned(t)
            /\ Len(hist[t]) - 1 < MAX_RETRIES
            /\ ret[t] = Last(hist[t]).text
            /\ calls[t] = Len(hist[t])
            /\ Len(sleeps[t]) = Len(hist[t]) - 1
            /\ StrictlyIncreasing(sleeps[t])

\* C5 witness: two general API errors, then "hi": three calls, two sleeps.
C5_Witness ==
    \E t \in Tasks :
        /\ pc[t] = "gen_done"
        /\ Len(hist[t]) = 3
        /\ IsGeneralApi(hist[t][1])
        /\ IsGeneralApi(hist[t][2])
        /\ hist[t][3] = Response("hi")
        /\ ret[t] = "hi"
        /\ calls[t] = 3
        /\ Len(sleeps[t]) = 2

\* C6: with no model configured the call returns the configuration-error
\* string at once: it never enters the retry loop, calls the client zero
\* times and sleeps zero times.
C6_UnconfiguredReturnsAtOnce ==
    model = None =>
        \A t \in Tasks :
            /\ pc[t] \notin {"gen_try", "gen_sleep", "raised"}
            /\ calls[t] = 0
            /\ sleeps[t] = <<>>
            /\ hist[t] = <<>>
            /\ (pc[t] = "gen_done" \/ ret[t] # NoRet) => ret[t] = CONFIG_ERROR_MSG
            /\ (pc[t] = "handled" /\ upd[t].kind = "message" /\ upd[t].data \notin {None, ""})
                   => ret[t] = CONFIG_ERROR_MSG

C6_Witness ==
    \E t \in Tasks :
        model = None /\ pc[t] = "gen_done" /\ ret[t] = CONFIG_ERROR_MSG /\ calls[t] = 0

\* The about-text an about request of task t was answered with.
AboutSent(o) == o.op = "send_message" /\ o.markup = <<>>

\* C7: the step of handle_callback that serves an about request of a user
\* who has selected a language sends the about-text in the language of that
\* user's latest selection, whatever updates were handled in between.
C7_AboutInSelectedLanguage ==
    [][\A t \in Tasks :
          (IsAboutRequest(t) /\ pc[t] = "cb_body" /\ pc'[t] = "handled"
           /\ lastSel[upd[t].user] # Unset) =>
              /\ Len(out'[t]) = Len(out[t]) + 1
              /\ AboutSent(Last(out'[t]))
              /\ lastSel[upd[t].user] = LANG_AMHARIC => Last(out'[t]).text = ABOUT_TEXT_AM
              /\ lastSel[upd[t].user] = LANG_ENGLISH => Last(out'[t]).text = ABOUT_TEXT_EN]_vars

\* C7 witness: three updates were received, the user's latest selection is
\* English, and the about request was answered with the English about-text
\* while no other request is in flight.
C7_Witness ==
    \E t \in Tasks :
        /\ IsAboutRequest(t)
        /\ pc[t] = "handled"
        /\ nupdates = 3
        /\ \A t2 \in Tasks \ {t} : pc[t2] = "idle"
        /\ lastSel[upd[t].user] = LANG_ENGLISH
        /\ Last(out[t]).text = ABOUT_TEXT_EN

\* C8: no step of the handling of an about request changes the session of
\* any user, and the step that serves it for a user with no stored language
\* sends the Amharic about-text.
C8_AboutDefaultsAndKeepsSession ==
    [][\A t \in Tasks :
          (IsAboutRequest(t) /\ pc'[t] # pc[t]) =>
              /\ user_data' = user_data
              /\ (pc[t] = "cb_body" /\ user_data[upd[t].user] = Unset) =>
                    /\ Len(out'[t]) = Len(out[t]) + 1
                    /\ AboutSent(Last(out'[t]))
                    /\ Last(out'[t]).text = ABOUT_TEXT_AM]_vars

\* C8 witness: an about request of a user with no stored language has been
\* answered in Amharic and the user still has no stored language.
C8_Witness ==
    \E t \in Tasks :
        /\ IsAboutRequest(t)
        /\ pc[t] = "handled"
        /\ user_data[upd[t].user] = Unset
        /\ Last(out[t]).text = ABOUT_TEXT_AM

\* C9: while a callback with an unrecognized code is handled, the only
\* outbound call is the answer to the callback query (no message is sent
\* or edited), and no step of its handling changes any user's session.
C9_UnknownCallbackIgnored ==
    /\ [](\A t \in Tasks :
            IsUnknownCallback(t) =>
                \A i \in 1..Len(out[t]) : out[t][i].op = "answer")
    /\ [][\A t \in Tasks :
            (IsUnknownCallback(t) /\ pc'[t] # pc[t]) => user_data' = user_data]_vars

\* C9 witness: an unrecognized callback has been handled to the end.
C9_Witness ==
    \E t \in Tasks :
        /\ IsUnknownCallback(t)
        /\ pc[t] = "handled"
        /\ out[t] = << Outbound("answer", "", "", <<>>) >>

\* C10: while a message with empty or absent text is handled nothing is
\* sent (no reply, no typing indicator) and generate_response_with_retry is
\* not entered.
C10_EmptyMessageIgnored ==
    \A t \in Tasks :
        IsEmptyMessage(t) =>
            /\ out[t] = <<>>
            /\ pc[t] \in {"handle_message", "handled"}
            /\ ret[t] = NoRet
            /\ calls[t] = 0

\* C10 witness: a message with empty text has been handled to the end.
C10_Witness ==
    \E t \in Tasks :
        /\ upd[t].kind = "message"
        /\ upd[t].data = ""
        /\ pc[t] = "handled"

IsSelection(t) ==
    upd[t].kind = "callback" /\ upd[t].data \in {LANG_AMHARIC, LANG_ENGLISH}

\* C11: the step of handle_callback that serves a language selection stores
\* the selected code in the user's session, whatever was stored before (so a
\* second selection overwrites the first and re-selecting the stored code
\* changes nothing), and edits the message into the welcome text of that
\* language with a single button, the about option.
C11_SelectionStoresAndWelcomes ==
    [][\A t \in Tasks :
          (IsSelection(t) /\ pc[t] = "cb_body" /\ pc'[t] = "handled") =>
              /\ user_data'[upd[t].user] = upd[t].data
              /\ user_data[upd[t].user] = upd[t].data => user_data' = user_data
              /\ Len(out'[t]) = Len(out[t]) + 1
              /\ Last(out'[t]).op = "edit_message_text"
              /\ upd[t].data = LANG_AMHARIC => Last(out'[t]).text = WELCOME_AM
              /\ upd[t].data = LANG_ENGLISH => Last(out'[t]).text = WELCOME_EN
              /\ Len(Last(out'[t]).markup) = 1
              /\ Last(out'[t]).markup[1][2] = ACTION_ABOUT]_vars

\* C11 witness: the same user selected Amharic in one request and English
\* in another, both were served, and the session holds English, the later
\* one, with the English welcome sent.
C11_Witness ==
    \E t \in Tasks, t2 \in Tasks :
        /\ pc[t] = "handled" /\ pc[t2] = "handled"
        /\ IsSelection(t) /\ IsSelection(t2)
        /\ upd[t].user = upd[t2].user
        /\ upd[t].data = LANG_AMHARIC
        /\ upd[t2].data = LANG_ENGLISH
        /\ user_data[upd[t].user] = LANG_ENGLISH
        /\ Last(out[t2]).text = WELCOME_EN

\* C12 as stated: every POST that has been answered was answered with
\* 200 {"status": "ok"}, whatever its body was.
C12_AsStated ==
    \A t \in Tasks : resp[t] \in {NoResp, HTTP_OK}

\* C13: no step of the handling of /start changes the session of any user,
\* and the handler replies with the menu of exactly two options, Amharic and
\* English.
C13_StartKeepsSession ==
    [][\A t \in Tasks :
          (upd[t].kind = "command" /\ pc'[t] # pc[t]) =>
              /\ user_data' = user_data
              /\ pc[t] = "start" =>
                    /\ Len(out'[t]) = 1
                    /\ out'[t][1].op = "reply_text"
                    /\ out'[t][1].text = MENU_TEXT
                    /\ Len(out'[t][1].markup) = 2
                    /\ out'[t][1].markup[1][2] = LANG_AMHARIC
                    /\ out'[t][1].markup[2][2] = LANG_ENGLISH]_vars

\* C13 witness: /start of a user who had selected English has been served
\* and the session still holds English.
C13_Witness ==
    \E t \in Tasks :
        /\ upd[t].kind = "command"
        /\ pc[t] = "handled"
        /\ user_data[upd[t].user] = LANG_ENGLISH
        /\ Len(out[t]) = 1

RetryableLast(t) == hist[t] # <<>> /\ IsRetryable(Last(hist[t]))

\* The delays 2^0, 2^1, 2^2.
PowersOfTwo == <<1, 2, 4>>

\* C15 as stated: a retryable failure on zero-based attempt i is followed by
\* a sleep of 2^i, for i = 0, 1 and 2.
C15_AsStated ==
    \A t \in Tasks :
        RetryableLast(t) => sleeps[t] = SubSeq(PowersOfTwo, 1, Len(hist[t]))

\* C15 amended: a retryable failure on zero-based attempt i < MAX_RETRIES - 1
\* is followed by a sleep of exactly 2^i (1 and 2 units for attempts 0 and
\* 1); a retryable failure on the last attempt is followed by no sleep: the
\* call returns its fallback at once.
C15_BackoffBeforeNextAttempt ==
    \A t \in Tasks :
        RetryableLast(t) =>
            IF Len(hist[t]) < MAX_RETRIES
            THEN sleeps[t] = SubSeq(PowersOfTwo, 1, Len(hist[t]))
            ELSE /\ sleeps[t] = SubSeq(PowersOfTwo, 1, MAX_RETRIES - 1)
                 /\ Returned(t)

\* C15 witness: the second attempt failed retryably and the call is in its
\* second sleep, of 2 units.
C15_Witness ==
    \E t \in Tasks :
        /\ pc[t] = "gen_sleep"
        /\ Len(hist[t]) = 2
        /\ RetryableLast(t)
        /\ sleeps[t] = <<1, 2>>

AllGeneralApi(t) ==
    /\ hist[t] # <<>>
    /\ \A i \in 1..Len(hist[t]) : IsGeneralApi(hist[t][i])

\* C16: a gateway call never makes more than MAX_RETRIES calls of the
\* client, and it terminates: once entered it returns, as long as the
\* request handling it keeps being run; when every attempt fails with a
\* general API error it has made exactly MAX_RETRIES calls on return and
\* returns the technical-issue fallback.
C16_TerminatesWithinMaxRetries ==
    /\ [](\A t \in Tasks :
            /\ calls[t] <= MAX_RETRIES
            /\ Len(hist[t]) <= MAX_RETRIES
            /\ attempt[t] < MAX_RETRIES
            /\ (Returned(t) /\ AllGeneralApi(t)) =>
                  (calls[t] = MAX_RETRIES /\ ret[t] = TECHNICAL_MSG))
    /\ \A t \in {"t1"} : (pc[t] = "generate") ~> Returned(t)

\* C16 witness: three general API errors in a row, three calls, and the
\* call has returned the technical-issue fallback.
C16_Witness ==
    \E t \in Tasks :
        /\ pc[t] = "gen_done"
        /\ AllGeneralApi(t)
        /\ calls[t] = MAX_RETRIES
        /\ ret[t] = TECHNICAL_MSG

IsNonEmptyMessage(t) == upd[t].kind = "message" /\ ~ IsEmptyMessage(t)

Typing == Outbound("send_chat_action", "typing", "", <<>>)

\* C17: while a message with non-empty text is handled, the typing
\* indicator has been sent, and nothing else, by the time the gateway is
\* entered and all the time it runs; once the message is handled exactly one
\* reply has followed, whose text is the string the gateway returned; and
\* no step of the handling changes any session, so that the reply is no
\* function of the language the identity has selected.
C17_TypingThenVerbatimReply ==
    /\ [](\A t \in Tasks :
            IsNonEmptyMessage(t) =>
                /\ pc[t] = "handle_message" => (out[t] = <<>> /\ calls[t] = 0)
                /\ pc[t] \in {"generate", "gen_try", "gen_sleep", "gen_done"} =>
                       out[t] = <<Typing>>
                /\ pc[t] = "handled" =>
                       /\ ret[t] # NoRet
                       /\ out[t] = <<Typing, Outbound("reply_text", ret[t], "", <<>>)>>)
    /\ [][\A t \in Tasks :
            (IsNonEmptyMessage(t) /\ pc'[t] # pc[t]) =>
                (user_data' = user_data /\ lastSel' = lastSel)]_vars

\* C17 witness: two identities, one with English selected and one with no
\* language selected, have each had a non-empty message answered with a
\* generated text.
C17_Witness ==
    \E t \in Tasks, t2 \in Tasks :
        /\ t # t2
        /\ IsNonEmptyMessage(t) /\ IsNonEmptyMessage(t2)
        /\ pc[t] = "handled" /\ pc[t2] = "handled"
        /\ user_data[upd[t].user] = LANG_ENGLISH
        /\ user_data[upd[t2].user] = Unset
        /\ ret[t] \in Texts /\ ret[t2] \in Texts
        /\ Len(out[t]) = 2 /\ Len(out[t2]) = 2

\* Every attempt of task t's call failed retryably, all MAX_RETRIES of them.
Exhausted(t) ==
    /\ Len(hist[t]) = MAX_RETRIES
    /\ \A i \in 1..Len(hist[t]) : IsRetryable(hist[t][i])

\* C18: when a gateway call has returned after MAX_RETRIES retryable
\* failures, the fallback it returned depends on the class of the last
\* failure alone: the technical-issue fallback after a general API error,
\* the unknown-error fallback after an empty response or another exception.
C18_LastFailureDecidesFallback ==
    \A t \in Tasks :
        (Returned(t) /\ Exhausted(t)) =>
            /\ IsGeneralApi(Last(hist[t])) => ret[t] = TECHNICAL_MSG
            /\ (IsEmptyResponse(Last(hist[t])) \/ IsOtherException(Last(hist[t]))) =>
                   ret[t] = UNKNOWN_MSG

\* C18 witness: two calls have failed three times with mixed classes, one
\* ending on a general API error after an empty response and another
\* exception, the other ending on an empty response after two general API
\* errors.
C18_Witness ==
    \E t \in Tasks, t2 \in Tasks :
        /\ pc[t] = "gen_done" /\ pc[t2] = "gen_done"
        /\ Exhausted(t) /\ Exhausted(t2)
        /\ IsEmptyResponse(hist[t][1]) /\ IsOtherException(hist[t][2])
        /\ IsGeneralApi(hist[t][3])
        /\ ret[t] = TECHNICAL_MSG
        /\ IsGeneralApi(hist[t2][1]) /\ IsGeneralApi(hist[t2][2])
        /\ IsEmptyResponse(hist[t2][3])
        /\ ret[t2] = UNKNOWN_MSG

\* C19: the return after the loop is never taken: no call returns the
\* all-attempts-failed message, and the loop is never left with its attempts
\* used up; every call that has returned did so from the unconfigured-model
\* check, with no attempt made, or from inside the loop.
C19_AfterLoopReturnUnreachable ==
    \A t \in Tasks :
        /\ ret[t] # ALL_FAILED_MSG
        /\ ~ (pc[t] = "gen_try" /\ attempt[t] >= MAX_RETRIES)
        /\ pc[t] = "gen_sleep" => attempt[t] < MAX_RETRIES - 1
        /\ Returned(t) =>
               \/ ret[t] = CONFIG_ERROR_MSG /\ hist[t] = <<>>
               \/ /\ hist[t] # <<>>
                  /\ attempt[t] = Len(hist[t]) - 1
                  /\ attempt[t] < MAX_RETRIES

\* C19 witness: a call has used its last attempt, on another exception
\* after two sleeps, and returned from inside the loop.
C19_Witness ==
    \E t \in Tasks :
        /\ pc[t] = "gen_done"
        /\ attempt[t] = MAX_RETRIES - 1
        /\ sleeps[t] = <<1, 2>>
        /\ IsOtherException(Last(hist[t]))
        /\ ret[t] = UNKNOWN_MSG

\* Task t takes the step of handle_callback that serves a language selection.
ServesSelection(t) ==
    IsSelection(t) /\ pc[t] = "cb_body" /\ pc'[t] = "handled"

\* C20: every session holds no language or one of AM and EN; a session
\* changes only in the step that serves a language selection of its own
\* identity, and then to the code of that selection, so that a selection of
\* one identity changes no other identity's session; and when two
\* selections of the same identity were in flight together and both have
\* been served, the session holds the code of one of them, the one that was
\* stored last.
C20_SessionsIsolatedLastWriteWins ==
    /\ [](\A u \in Users : user_data[u] \in {Unset, LANG_AMHARIC, LANG_ENGLISH})
    /\ [](\A t \in Tasks, t2 \in Tasks :
            (/\ t # t2
             /\ IsSelection(t) /\ IsSelection(t2)
             /\ upd[t].user = upd[t2].user
             /\ pc[t] = "handled" /\ pc[t2] = "handled") =>
                /\ user_data[upd[t].user] \in {upd[t].data, upd[t2].data}
                /\ user_data[upd[t].user] = lastSel[upd[t].user])
    /\ [][/\ \A u \in Users :
               user_data'[u] # user_data[u] =>
                   \E t \in Tasks :
                       /\ ServesSelection(t)
                       /\ upd[t].user = u
                       /\ user_data'[u] = upd[t].data
          /\ \A t \in Tasks :
               ServesSelection(t) =>
                   \A u \in Users \ {upd[t].user} : user_data'[u] = user_data[u]]_vars

\* C20 witness: after another identity had selected English, two selections
\* of one identity, Amharic and English, were in flight together and both
\* have been served; Amharic was stored last, and the other identity's
\* session still holds English.
C20_Witness ==
    \E t \in Tasks, t2 \in Tasks, u \in Users :
        /\ pc[t] = "handled" /\ pc[t2] = "handled"
        /\ IsSelection(t) /\ IsSelection(t2)
        /\ upd[t].user = upd[t2].user
        /\ u # upd[t].user
        /\ upd[t].data = LANG_AMHARIC
        /\ upd[t2].data = LANG_ENGLISH
        /\ Len(out[t2]) = 2
        /\ user_data[upd[t].user] = LANG_AMHARIC
        /\ user_data[u] = LANG_ENGLISH

====
